---- MODULE Spec2Model ----
(***************************************************************************)
(* Model of the invocation bridge of the AI Outbound Operator MCP server   *)
(* (src/server.py): the process-wide session identity, the _api helper     *)
(* that turns one tool call into one authenticated backend request, and    *)
(* the sixteen tools that map their arguments onto _api.                   *)
(*                                                                         *)
(* Python values: an Optional is None (the empty tuple) or Some(v) (a      *)
(* one-element tuple); a dict is a function over its keys; a list is a     *)
(* sequence.                                                               *)
(***************************************************************************)
EXTENDS Integers, Sequences, FiniteSets, TLC

VARIABLES
    _session_user_id,   \* the module global of src/server.py:32
    call,               \* the tool invocation that took the last step
    sent,               \* the backend requests issued by that invocation, in order
    reply,              \* what the backend (or the network) did with that request
    outcome,            \* what that invocation gave its caller: a return or a raise
    carried,            \* history: the user_id of the most recent invocation that had one
    identified,         \* history: the most recent invocation that had a non-empty user_id
    pc,                 \* concurrent use: each thread's position inside _api
    arg,                \* concurrent use: the (tool, user_id) each thread was called with
    hdr,                \* concurrent use: the headers dict each thread has built
    lastWrite,          \* history: the latest value any thread stored in the global
    seen                \* history: lastWrite as it was when the thread built its headers

vars == <<_session_user_id, call, sent, reply, outcome, carried, identified,
          pc, arg, hdr, lastWrite, seen>>
seqVars == <<call, sent, reply, outcome, carried, identified>>
concVars == <<pc, arg, hdr, lastWrite, seen>>

-----------------------------------------------------------------------------
(* Python values *)

None == <<>>
Some(v) == <<v>>

\* truthiness of an Optional[str] (None and "" are falsy)
TruthyStr(o) == o # None /\ o[1] # ""
\* truthiness of an Optional[list] (None and [] are falsy)
TruthyList(o) == o # None /\ Len(o[1]) > 0

EmptyDict == [k \in {} |-> None]

-----------------------------------------------------------------------------
(* Configuration and input domains *)

API_BASE == "http://localhost:5000"
INTERNAL_KEY == "dev-internal-key-change-in-prod"
TIMEOUT == 30

\* user identifiers a caller may pass for a `user_id: str` parameter
UserIds == {"", "u1", "u2"}
LeadIds == {"l1"}
Channels == {"email", "sms"}
Temperatures == {None, Some(""), Some("hot")}
\* optional list and string arguments: left unset, supplied empty, supplied non-empty
ListArgs == {None, Some(<<>>), Some(<<"a">>)}
StrArgs == {None, Some(""), Some("k")}
\* the same without the empty value, for two of the four search filters
ListArgsSet == {None, Some(<<"a", "b">>)}

\* bodies the backend may answer with
BodyNotFound == "{\"error\":\"not found\"}"
BodyLeads == "{\"leads\":[{\"id\":\"l1\",\"score\":82}]}"
BodyEmpty == ""

Response(status_code, text) == [kind |-> "response", status_code |-> status_code, text |-> text]

\* what requests.request can do with one request: give back the backend's
\* response, or raise requests.Timeout / requests.ConnectionError
Backend ==
    {Response(200, BodyLeads), Response(200, BodyEmpty),
     Response(300, BodyLeads), Response(304, BodyEmpty),
     Response(404, BodyNotFound), Response(500, BodyEmpty),
     [kind |-> "Timeout"], [kind |-> "ConnectionError"]}

-----------------------------------------------------------------------------
(* _api, src/server.py:35-49 *)

\* faulty variants of lines 38-39: the first identity is kept; the store is
\* unconditional; the test is `is not None` instead of truthiness
SetSessionUserId_KeepFirst(session, user_id) ==
    IF TruthyStr(user_id) /\ session = None THEN user_id ELSE session
SetSessionUserId_Always(session, user_id) == user_id
SetSessionUserId_NotNone(session, user_id) ==
    IF user_id # None THEN user_id ELSE session

\* lines 38-39: if user_id: _session_user_id = user_id
SetSessionUserId(session, user_id) ==
    IF TruthyStr(user_id) THEN user_id ELSE session

\* line 41: url = f"{API_BASE}{path}"
Url(path) == API_BASE \o path

\* faulty variants of lines 42-45: the user header replaces the dict instead of
\* joining it; the user header is never stored
BuildHeaders_UserIdReplaces(kwargs, session) ==
    IF TruthyStr(session)
    THEN [k \in {"X-User-Id"} |-> session[1]]
    ELSE [k \in {"X-Internal-Key"} |-> INTERNAL_KEY]
BuildHeaders_InternalKeyOnly(kwargs, session) ==
    [k \in {"X-Internal-Key"} |-> INTERNAL_KEY]

\* lines 42-45: headers = kwargs.pop("headers", {}); the two header stores
BuildHeaders(kwargs, session) ==
    LET h0 == IF "headers" \in DOMAIN kwargs THEN kwargs["headers"] ELSE EmptyDict
        h1 == [k \in DOMAIN h0 \cup {"X-Internal-Key"} |->
                  IF k = "X-Internal-Key" THEN INTERNAL_KEY ELSE h0[k]]
    IN  IF TruthyStr(session)
        THEN [k \in DOMAIN h1 \cup {"X-User-Id"} |->
                  IF k = "X-User-Id" THEN session[1] ELSE h1[k]]
        ELSE h1

\* line 47: the arguments of requests.request(method, url, headers=, timeout=30, **kwargs)
Request(method, url, headers, kwargs) ==
    [method |-> method, url |-> url, headers |-> headers, timeout |-> TIMEOUT,
     kwargs |-> [k \in DOMAIN kwargs \ {"headers"} |-> kwargs[k]]]

\* faulty variant of line 48: only server errors raise
raise_for_status_ServerOnly(resp) ==
    500 <= resp.status_code /\ resp.status_code < 600

\* line 48: resp.raise_for_status() raises HTTPError for 4xx and 5xx only
raise_for_status(resp) ==
    (400 <= resp.status_code /\ resp.status_code < 500)
        \/ (500 <= resp.status_code /\ resp.status_code < 600)

\* line 49: resp.json(), on the bodies of Bodies
json_loads(text) ==
    CASE text = BodyNotFound -> [ok |-> TRUE, value |-> [error |-> "not found"]]
      [] text = BodyLeads -> [ok |-> TRUE, value |-> [leads |-> <<[id |-> "l1", score |-> 82]>>]]
      [] OTHER -> [ok |-> FALSE]

\* json.dumps(result, indent=2) of the tools, on the values json_loads gives
json_dumps(value) ==
    IF value = [error |-> "not found"]
    THEN "{\n  \"error\": \"not found\"\n}"
    ELSE "{\n  \"leads\": [\n    {\n      \"id\": \"l1\",\n      \"score\": 82\n    }\n  ]\n}"

\* an exception leaving _api; response is None for the network failures
Raise(exc, response) == [kind |-> "raise", exc |-> exc, response |-> response]
Return(value) == [kind |-> "return", value |-> value]

\* faulty variant of lines 47-49: a timeout is retried once and then swallowed
Perform_RetryOnTimeout(req, backend) ==
    IF backend.kind = "Timeout"
    THEN [sent |-> <<req, req>>, result |-> Return([error |-> "not found"])]
    ELSE [sent |-> <<req>>,
          result |->
             IF backend.kind # "response" THEN Raise(backend.kind, None)
             ELSE IF backend.status_code >= 400 THEN Raise("HTTPError", Some(backend))
             ELSE IF backend.text = BodyEmpty THEN Raise("JSONDecodeError", Some(backend))
             ELSE Return([error |-> "not found"])]

\* lines 47-49: one requests.request call, then raise_for_status, then json()
Perform(req, backend) ==
    [sent |-> <<req>>,
     result |->
        IF backend.kind # "response" THEN Raise(backend.kind, None)
        ELSE IF raise_for_status(backend) THEN Raise("HTTPError", Some(backend))
        ELSE IF ~json_loads(backend.text).ok THEN Raise("JSONDecodeError", Some(backend))
        ELSE Return(json_loads(backend.text).value)]

\* faulty variants of _api: the store happens after the request, and only when
\* nothing was raised; the store is undone when the request raises
_api_StoreAfterRequest(session, method, path, user_id, kwargs, backend) ==
    LET req == Request(method, Url(path), BuildHeaders(kwargs, session), kwargs)
        p == Perform(req, backend)
    IN  [session |-> IF p.result.kind = "return"
                     THEN SetSessionUserId(session, user_id) ELSE session,
         sent |-> p.sent, result |-> p.result]
_api_RollbackOnFailure(session, method, path, user_id, kwargs, backend) ==
    LET s1 == SetSessionUserId(session, user_id)
        req == Request(method, Url(path), BuildHeaders(kwargs, s1), kwargs)
        p == Perform(req, backend)
    IN  [session |-> IF p.result.kind = "return" THEN s1 ELSE session,
         sent |-> p.sent, result |-> p.result]

\* the whole of _api: the session after it, the requests it issued, its result
_api(session, method, path, user_id, kwargs, backend) ==
    LET s1 == SetSessionUserId(session, user_id)
        req == Request(method, Url(path), BuildHeaders(kwargs, s1), kwargs)
        p == Perform(req, backend)
    IN  [session |-> s1, sent |-> p.sent, result |-> p.result]

-----------------------------------------------------------------------------
(* The tools *)

\* the body shared by every tool: result = _api(...); return json.dumps(result, indent=2).
\* `r` is what the tool's _api call gave; the step also records the call for the properties.
Tool(name, uid, args, backend, r) ==
    /\ _session_user_id' = r.session
    /\ sent' = r.sent
    /\ outcome' = IF r.result.kind = "return"
                  THEN Return(json_dumps(r.result.value))
                  ELSE r.result
    /\ call' = [tool |-> name, user_id |-> uid, args |-> args]
    /\ reply' = backend
    /\ carried' = IF uid # None THEN uid ELSE carried
    /\ identified' = IF uid # None /\ uid[1] # ""
                     THEN Some([user_id |-> uid[1], failed |-> r.result.kind = "raise"])
                     ELSE identified
    /\ UNCHANGED concVars

\* faulty variant of lines 73-81: the tests are `is not None` instead of truthiness
search_leads_filters_NotNone(person_titles, person_locations, q_keywords, ranges) ==
    LET keys == {k \in {"person_titles"} : person_titles # None}
                \cup {k \in {"person_locations"} : person_locations # None}
                \cup {k \in {"q_keywords"} : q_keywords # None}
                \cup {k \in {"organization_num_employees_ranges"} : ranges # None}
    IN  [k \in keys |->
            CASE k = "person_titles" -> person_titles[1]
              [] k = "person_locations" -> person_locations[1]
              [] k = "q_keywords" -> q_keywords[1]
              [] OTHER -> ranges[1]]

\* lines 73-81: the filters dict of search_leads
search_leads_filters(person_titles, person_locations, q_keywords, ranges) ==
    LET keys == {k \in {"person_titles"} : TruthyList(person_titles)}
                \cup {k \in {"person_locations"} : TruthyList(person_locations)}
                \cup {k \in {"q_keywords"} : TruthyStr(q_keywords)}
                \cup {k \in {"organization_num_employees_ranges"} : TruthyList(ranges)}
    IN  [k \in keys |->
            CASE k = "person_titles" -> person_titles[1]
              [] k = "person_locations" -> person_locations[1]
              [] k = "q_keywords" -> q_keywords[1]
              [] OTHER -> ranges[1]]

search_leads(backend) ==
    \E user_id \in UserIds, person_titles \in ListArgs, person_locations \in ListArgsSet,
       q_keywords \in StrArgs, ranges \in ListArgsSet :
        Tool("search_leads", Some(user_id),
             [person_titles |-> person_titles, person_locations |-> person_locations,
              q_keywords |-> q_keywords, organization_num_employees_ranges |-> ranges],
             backend,
             _api(_session_user_id, "POST", "/leads/search", Some(user_id),
                  [json |-> [filters |-> search_leads_filters(person_titles, person_locations,
                                                              q_keywords, ranges)]],
                  backend))

enrich_lead(backend) ==
    \E lead_id \in LeadIds :
        Tool("enrich_lead", None, EmptyDict, backend,
             _api(_session_user_id, "POST", "/leads/enrich/" \o lead_id, None, EmptyDict, backend))

\* lines 106-108: the params dict of list_leads
list_leads_params(temperature) ==
    IF TruthyStr(temperature) THEN [temperature |-> temperature[1]] ELSE EmptyDict

list_leads(backend) ==
    \E user_id \in UserIds, temperature \in Temperatures :
        Tool("list_leads", Some(user_id), EmptyDict, backend,
             _api(_session_user_id, "GET", "/leads/list", Some(user_id),
             [params |-> list_leads_params(temperature)], backend))

get_lead(backend) ==
    \E lead_id \in LeadIds :
        Tool("get_lead", None, EmptyDict, backend,
             _api(_session_user_id, "GET", "/leads/" \o lead_id, None, EmptyDict, backend))

mark_do_not_contact(backend) ==
    \E lead_id \in LeadIds, reason \in {"manual"} :
        Tool("mark_do_not_contact", None, EmptyDict, backend,
             _api(_session_user_id, "POST", "/leads/" \o lead_id \o "/dnc", None,
             [json |-> [reason |-> reason]], backend))

draft_message(backend) ==
    \E lead_id \in LeadIds, channel \in Channels, context \in {""} :
        Tool("draft_message", None, EmptyDict, backend,
             _api(_session_user_id, "POST", "/outreach/draft", None,
             [json |-> [lead_id |-> lead_id, channel |-> channel, context |-> context]],
             backend))

send_email(backend) ==
    \E lead_id \in LeadIds, subject \in {"hi"}, content \in {"body"} :
        Tool("send_email", None, EmptyDict, backend,
             _api(_session_user_id, "POST", "/outreach/send/email", None,
             [json |-> [lead_id |-> lead_id, subject |-> subject, content |-> content]],
             backend))

send_sms(backend) ==
    \E lead_id \in LeadIds, content \in {"body"} :
        Tool("send_sms", None, EmptyDict, backend,
             _api(_session_user_id, "POST", "/outreach/send/sms", None,
             [json |-> [lead_id |-> lead_id, content |-> content]], backend))

place_call(backend) ==
    \E lead_id \in LeadIds, script \in {"script"}, callback_url \in {"http://cb"} :
        Tool("place_call", None, EmptyDict, backend,
             _api(_session_user_id, "POST", "/outreach/send/call", None,
             [json |-> [lead_id |-> lead_id, script |-> script,
                        callback_url |-> callback_url]], backend))

create_sequence(backend) ==
    \E lead_id \in LeadIds, user_id \in UserIds, channel \in Channels,
       num_steps \in {3}, context \in {""}, auto_send \in BOOLEAN :
        Tool("create_sequence", Some(user_id), EmptyDict, backend,
             _api(_session_user_id, "POST", "/outreach/sequence", Some(user_id),
             [json |-> [lead_id |-> lead_id, channel |-> channel, num_steps |-> num_steps,
                        context |-> context, auto_send |-> auto_send]], backend))

outreach_history(backend) ==
    \E lead_id \in LeadIds :
        Tool("outreach_history", None, EmptyDict, backend,
             _api(_session_user_id, "GET", "/outreach/history/" \o lead_id, None,
             EmptyDict, backend))

classify_reply(backend) ==
    \E reply_text \in {"yes"} :
        Tool("classify_reply", None, EmptyDict, backend,
             _api(_session_user_id, "POST", "/scoring/classify", None,
             [json |-> [reply_text |-> reply_text]], backend))

process_reply(backend) ==
    \E lead_id \in LeadIds, reply_text \in {"yes"}, channel \in Channels :
        Tool("process_reply", None, EmptyDict, backend,
             _api(_session_user_id, "POST", "/scoring/process-reply", None,
             [json |-> [lead_id |-> lead_id, reply_text |-> reply_text,
                        channel |-> channel]], backend))

score_lead(backend) ==
    \E lead_id \in LeadIds :
        Tool("score_lead", None, EmptyDict, backend,
             _api(_session_user_id, "POST", "/scoring/score/" \o lead_id, None, EmptyDict,
             backend))

get_hot_lead_notifications(backend) ==
    \E user_id \in UserIds :
        Tool("get_hot_lead_notifications", Some(user_id), EmptyDict, backend,
             _api(_session_user_id, "GET", "/notifications/hot-leads",
             Some(user_id), EmptyDict, backend))

summarize_pipeline(backend) ==
    \E user_id \in UserIds :
        Tool("summarize_pipeline", Some(user_id), EmptyDict, backend,
             _api(_session_user_id, "GET", "/notifications/pipeline-summary",
             Some(user_id), EmptyDict, backend))

-----------------------------------------------------------------------------
(* Sequential use: one invocation at a time, each running to completion *)

NumThreads == 3
Threads == 1..NumThreads

NoCall == [tool |-> "", user_id |-> None, args |-> EmptyDict]

Init ==
    /\ _session_user_id = None
    /\ call = NoCall
    /\ sent = <<>>
    /\ reply = [kind |-> "none"]
    /\ outcome = [kind |-> "none"]
    /\ carried = None
    /\ identified = None
    /\ pc = [t \in Threads |-> "idle"]
    /\ arg = [t \in Threads |-> NoCall]
    /\ hdr = [t \in Threads |-> EmptyDict]
    /\ lastWrite = None
    /\ seen = [t \in Threads |-> None]

Next ==
    \E backend \in Backend :
        \/ search_leads(backend)
        \/ enrich_lead(backend)
        \/ list_leads(backend)
        \/ get_lead(backend)
        \/ mark_do_not_contact(backend)
        \/ draft_message(backend)
        \/ send_email(backend)
        \/ send_sms(backend)
        \/ place_call(backend)
        \/ create_sequence(backend)
        \/ outreach_history(backend)
        \/ classify_reply(backend)
        \/ process_reply(backend)
        \/ score_lead(backend)
        \/ get_hot_lead_notifications(backend)
        \/ summarize_pipeline(backend)

Spec == Init /\ [][Next]_vars

-----------------------------------------------------------------------------
(* Concurrent use: the hosting runtime runs several invocations in parallel  *)
(* threads.  _api takes no lock, so another thread may run between a         *)
(* thread's store to the global (lines 38-39), its read of the global        *)
(* (lines 44-45) and its request (line 47).  Threads call get_lead (no       *)
(* user_id) and summarize_pipeline (a user_id), one tool of each kind.       *)

\* a tool is entered: the thread is about to run line 38 of _api
CallTool(t) ==
    /\ pc[t] = "idle"
    /\ \E a \in {[tool |-> "get_lead", user_id |-> None, args |-> EmptyDict]}
                \cup {[tool |-> "summarize_pipeline", user_id |-> Some(u), args |-> EmptyDict] :
                        u \in UserIds} :
            arg' = [arg EXCEPT ![t] = a]
    /\ pc' = [pc EXCEPT ![t] = "l38"]
    /\ UNCHANGED <<_session_user_id, hdr, lastWrite, seen, seqVars>>

\* lines 38-39
ApiStore(t) ==
    /\ pc[t] = "l38"
    /\ _session_user_id' = SetSessionUserId(_session_user_id, arg[t].user_id)
    /\ lastWrite' = IF TruthyStr(arg[t].user_id) THEN arg[t].user_id ELSE lastWrite
    /\ pc' = [pc EXCEPT ![t] = "l42"]
    /\ UNCHANGED <<arg, hdr, seen, seqVars>>

\* lines 42-45
ApiHeaders(t) ==
    /\ pc[t] = "l42"
    /\ hdr' = [hdr EXCEPT ![t] = BuildHeaders(EmptyDict, _session_user_id)]
    /\ seen' = [seen EXCEPT ![t] = lastWrite]
    /\ pc' = [pc EXCEPT ![t] = "l47"]
    /\ UNCHANGED <<_session_user_id, arg, lastWrite, seqVars>>

\* lines 47-49: the request goes out with the headers built; the tool then returns
\* or raises to its own caller, which touches nothing the threads share
ApiRequest(t) ==
    /\ pc[t] = "l47"
    /\ pc' = [pc EXCEPT ![t] = "idle"]
    /\ arg' = [arg EXCEPT ![t] = NoCall]
    /\ hdr' = [hdr EXCEPT ![t] = EmptyDict]
    /\ seen' = [seen EXCEPT ![t] = None]
    /\ UNCHANGED <<_session_user_id, lastWrite, seqVars>>

NextConc ==
    \E t \in Threads :
        \/ CallTool(t)
        \/ ApiStore(t)
        \/ ApiHeaders(t)
        \/ ApiRequest(t)

SpecConc == Init /\ [][NextConc]_vars

-----------------------------------------------------------------------------
(* Properties *)

\* an invocation has taken a step
Invoked == call.tool # ""
\* the X-User-Id header of a request, as an Optional
XUserId(req) ==
    IF "X-User-Id" \in DOMAIN req.headers THEN Some(req.headers["X-User-Id"]) ELSE None

\* C1 as stated: in sequential use, a tool without a user_id invoked after some
\* invocation carried a user identifier sends X-User-Id equal to the identifier
\* of the most recent invocation that carried one.
C1_AsStated ==
    (Invoked /\ call.user_id = None /\ carried # None)
        => \A i \in 1..Len(sent) : XUserId(sent[i]) = carried

\* C1 amended: in sequential use, a tool without a user_id invoked after some
\* invocation carried a non-empty user identifier sends X-User-Id equal to the
\* identifier of the most recent invocation that carried a non-empty one,
\* whether that invocation succeeded or failed.
C1_LastNonEmptyIdentifierIsSent ==
    (Invoked /\ call.user_id = None /\ identified # None)
        => /\ sent # <<>>
           /\ \A i \in 1..Len(sent) : XUserId(sent[i]) = Some(identified[1].user_id)

\* get_lead after a failed call that carried u2, itself after another identifier
C1_Witness ==
    /\ call.tool = "get_lead"
    /\ identified = Some([user_id |-> "u2", failed |-> TRUE])
    /\ carried = Some("")
    /\ XUserId(sent[1]) = Some("u2")

\* C2: every backend request of every tool carries X-Internal-Key with the
\* configured credential, whether the session identity is unset or set.
C2_InternalKeyOnEveryRequest ==
    Invoked =>
        /\ sent # <<>>
        /\ \A i \in 1..Len(sent) :
              /\ "X-Internal-Key" \in DOMAIN sent[i].headers
              /\ sent[i].headers["X-Internal-Key"] = INTERNAL_KEY

C2_Witness ==
    /\ call.tool = "send_sms"
    /\ _session_user_id = Some("u1")
    /\ sent[1].headers = [k \in {"X-Internal-Key", "X-User-Id"} |->
                             IF k = "X-User-Id" THEN "u1" ELSE INTERNAL_KEY]

\* C3: a request carries X-User-Id iff the session identity is set when its
\* headers are built, with that identity as value; while no invocation has
\* carried a user identifier no request carries X-User-Id.
C3_UserIdHeaderIffSessionSet ==
    Invoked =>
        /\ \A i \in 1..Len(sent) :
              /\ ("X-User-Id" \in DOMAIN sent[i].headers) <=> (_session_user_id # None)
              /\ XUserId(sent[i]) = _session_user_id
        /\ carried = None => \A i \in 1..Len(sent) : XUserId(sent[i]) = None

C3_Witness ==
    /\ call.tool = "get_lead"
    /\ carried = None
    /\ Len(sent) = 1
    /\ DOMAIN sent[1].headers = {"X-Internal-Key"}

\* C4 as stated: an invocation that supplies a user identifier leaves the session
\* identity equal to it, for every string value of the identifier.
C4_AsStated ==
    (Invoked /\ call.user_id # None) => _session_user_id = call.user_id

\* C4 amended: an invocation that supplies a non-empty user identifier overwrites
\* the session identity with it before its request is sent (the request already
\* carries it), and the overwrite stays when the request fails; an empty
\* identifier leaves the session identity as it was.
C4_NonEmptyIdentifierOverwrites ==
    (Invoked /\ call.user_id # None /\ call.user_id[1] # "")
        => /\ _session_user_id = call.user_id
           /\ sent # <<>>
           /\ \A i \in 1..Len(sent) : XUserId(sent[i]) = call.user_id

C4_Witness ==
    /\ call.tool = "search_leads"
    /\ call.user_id = Some("u2")
    /\ outcome.kind = "raise" /\ outcome.exc = "HTTPError"
    /\ _session_user_id = Some("u2")
    /\ XUserId(sent[1]) = Some("u2")

\* C5: in every step the session identity is unchanged or becomes the user
\* identifier carried by the invocation taking the step; a tool without a
\* user_id leaves it unchanged; once set it never returns to unset.
C5_Step ==
    /\ \/ _session_user_id' = _session_user_id
       \/ call'.user_id # None /\ _session_user_id' = call'.user_id
    /\ call'.user_id = None => _session_user_id' = _session_user_id
    /\ _session_user_id # None => _session_user_id' # None

C5_SessionOnlyOverwritten == [][C5_Step]_vars

\* the identity set by an earlier call is still there after a failed tool without a user_id
C5_Witness ==
    /\ call.tool = "place_call"
    /\ outcome.kind = "raise"
    /\ carried = Some("u1")
    /\ _session_user_id = Some("u1")

\* C6 as stated: a failed invocation leaves the session identity as it was
\* before, for every tool.
C6_AsStated ==
    [][outcome'.kind = "raise" => _session_user_id' = _session_user_id]_vars

\* C6 amended: a failed invocation leaves the session identity as it was before
\* when it carried no user identifier or an empty one, and equal to the
\* identifier it carried otherwise, which is what the same invocation leaves
\* when it succeeds.
C6_FailureLeavesWhatSuccessLeaves ==
    [][(outcome'.kind \in {"raise", "return"})
         => _session_user_id' =
              IF call'.user_id # None /\ call'.user_id[1] # ""
              THEN call'.user_id ELSE _session_user_id]_vars

C6_Witness ==
    /\ call.tool = "create_sequence"
    /\ call.user_id = Some("u1")
    /\ outcome.kind = "raise" /\ outcome.exc = "Timeout"
    /\ _session_user_id = Some("u1")

\* what a response gives when nothing is retried, suppressed or converted
Is2xxOr3xx(r) == r.kind = "response" /\ r.status_code < 400

SentFilters == sent[1].kwargs["json"].filters
FilterNames ==
    {"person_titles", "person_locations", "q_keywords", "organization_num_employees_ranges"}
SearchSent ==
    /\ call.tool = "search_leads"
    /\ Len(sent) = 1
    /\ sent[1].method = "POST"
    /\ sent[1].url = API_BASE \o "/leads/search"
    /\ DOMAIN sent[1].kwargs = {"json"}
    /\ DOMAIN sent[1].kwargs["json"] = {"filters"}

\* C9 as stated: the keys of the filters object are exactly the filters the
\* caller supplied, each with the supplied value.
C9_AsStated ==
    call.tool = "search_leads"
        => /\ SearchSent
           /\ DOMAIN SentFilters = {k \in FilterNames : call.args[k] # None}
           /\ \A k \in DOMAIN SentFilters : SentFilters[k] = call.args[k][1]

\* a filter supplied with a value that is not empty (a non-empty list or string)
SuppliedNonEmpty(k) ==
    /\ call.args[k] # None
    /\ IF k = "q_keywords" THEN call.args[k][1] # "" ELSE Len(call.args[k][1]) > 0

\* C9 amended: the keys of the filters object are exactly the filters the caller
\* supplied with a non-empty value, each with the supplied value and never null;
\* a filter left unset or supplied empty is absent, and with none supplied the
\* object is empty.
C9_FiltersAreTheNonEmptyOnes ==
    call.tool = "search_leads"
        => /\ SearchSent
           /\ DOMAIN SentFilters = {k \in FilterNames : SuppliedNonEmpty(k)}
           /\ \A k \in DOMAIN SentFilters : SentFilters[k] = call.args[k][1]

C9_Witness ==
    /\ call.tool = "search_leads"
    /\ call.args.person_titles = Some(<<>>)
    /\ call.args.person_locations = None
    /\ call.args.q_keywords = Some("k")
    /\ call.args.organization_num_employees_ranges = Some(<<"a", "b">>)
    /\ DOMAIN SentFilters = {"q_keywords", "organization_num_employees_ranges"}
    /\ SentFilters["organization_num_employees_ranges"] = <<"a", "b">>

\* C10: with concurrent invocations the X-User-Id a thread sends is the value
\* most recently stored in the session identity by ANY thread at the moment the
\* thread builds its headers, not the thread's own user_id and not the value of
\* any particular earlier call: nothing orders the stores of two invocations
\* against the reads of the others.
C10_HeaderIsLatestStoreOfAnyThread ==
    \A t \in Threads :
        pc[t] = "l47" =>
            /\ "X-Internal-Key" \in DOMAIN hdr[t]
            /\ ("X-User-Id" \in DOMAIN hdr[t]) <=> (seen[t] # None)
            /\ seen[t] # None => hdr[t]["X-User-Id"] = seen[t][1]

\* three invocations in flight: one carries u1 yet sends u2, one carries u2, and
\* the third, of a tool without a user_id, sends u1
C10_Witness ==
    \E t1, t2, t3 \in Threads :
        /\ arg[t1].user_id = Some("u1") /\ pc[t1] = "l47" /\ hdr[t1]["X-User-Id"] = "u2"
        /\ arg[t2].user_id = Some("u2") /\ pc[t2] = "l42"
        /\ arg[t3].tool = "get_lead" /\ pc[t3] = "l47"
        /\ "X-User-Id" \in DOMAIN hdr[t3] /\ hdr[t3]["X-User-Id"] = "u1"

====
